---- MODULE Spec2Model ----
(***************************************************************************)
(* Model of klipper-docs-mcp: path validation and paginated reads          *)
(* (services/storage_manager.py, server.py), resource reads (server.py),   *)
(* ranked search (services/search_engine.py), the rendered tree and the    *)
(* synchronisation with the git repositories (services/git_manager.py).    *)
(*                                                                         *)
(* Text is a sequence of one-character strings; a file-system path is a    *)
(* sequence of names, a name being a sequence of characters, so that       *)
(* str(path) and the string tests made on it are computed, not assumed.    *)
(* Positions in text are 0-based as in the source.                         *)
(***************************************************************************)
EXTENDS Integers, Sequences, FiniteSets, TLC

VARIABLES fs, op, outcome, opened, walked, remembered, scan, docs_outdated, synced

\* what the read-only operations leave alone besides the file system: the
\* result a caller kept, the position of a search in progress, the
\* server's _docs_outdated flag, and whether a sync has returned since the
\* root was last missing
aside == <<remembered, scan, docs_outdated, synced>>

vars == <<fs, op, outcome, opened, walked, remembered, scan, docs_outdated, synced>>

(***************************************************************************)
(* Bounds of the model.                                                    *)
(***************************************************************************)
\* longest caller-supplied path, in components
MaxParts == 3
\* longest content of the paginated file
MaxLen == 3
\* number of supported files in the searched trees
NumFiles == 8

(***************************************************************************)
(* Program constants.                                                      *)
(***************************************************************************)
MAX_FILE_CHARS == 10000
SNIPPET_LENGTH == 200
MAX_SEARCH_RESULTS == 7
HEADING_CONTEXT == 50

(***************************************************************************)
(* Text helpers.                                                           *)
(***************************************************************************)
Min(a, b) == IF a < b THEN a ELSE b
Max(a, b) == IF a > b THEN a ELSE b

UpperChars == <<"A","B","C","D","E","F","G","H","I","J","K","L","M",
                "N","O","P","Q","R","S","T","U","V","W","X","Y","Z">>
LowerChars == <<"a","b","c","d","e","f","g","h","i","j","k","l","m",
                "n","o","p","q","r","s","t","u","v","w","x","y","z">>

\* str.lower() on one character
LowerChar(c) ==
  IF \E i \in 1..26 : UpperChars[i] = c
  THEN LowerChars[CHOOSE i \in 1..26 : UpperChars[i] = c]
  ELSE c

\* str.lower()
Lower(s) == [i \in 1..Len(s) |-> LowerChar(s[i])]

\* s[i] for a 0-based position i
At(s, i) == s[i + 1]

\* Python's s[a:b]: negative indices count from the end, both are clipped
PySlice(s, a, b) ==
  LET n  == Len(s)
      lo == IF a < 0 THEN Max(0, a + n) ELSE Min(a, n)
      hi == IF b < 0 THEN Max(0, b + n) ELSE Min(b, n)
  IN  IF lo < hi THEN SubSeq(s, lo + 1, hi) ELSE <<>>

\* needle occurs in hay at 0-based position i (exact comparison)
OccursAt(hay, needle, i) ==
  /\ i >= 0
  /\ i + Len(needle) <= Len(hay)
  /\ \A k \in 1..Len(needle) : hay[i + k] = needle[k]

\* Python's `needle in hay`
Contains(hay, needle) == \E i \in 0..Len(hay) : OccursAt(hay, needle, i)

\* str.startswith
StartsWith(s, prefix) == OccursAt(s, prefix, 0)

\* str.endswith
EndsWith(s, suffix) == OccursAt(s, suffix, Len(s) - Len(suffix))

(***************************************************************************)
(* Paths.                                                                  *)
(***************************************************************************)
DotDot == <<".", ".">>
Dot    == <<".">>

nDocs  == <<"d">>
nDocs2 == <<"d", "2">>
nEtc   == <<"e">>
nA     == <<"a", ".", "m", "d">>
nS     == <<"s", ".", "m", "d">>
nLn    == <<"l", "n">>
nMd    == <<".", "m", "d">>
nTxt   == <<".", "t", "x", "t">>
nK     == <<"k">>
nAd    == <<"a">>
nKbig  == <<"K">>
nBig   == <<"B", ".", "m", "d">>
nDotH  == <<".", "h">>
nDotG  == <<".", "g">>
nKlipper   == <<"k", "l", "i", "p", "p", "e", "r">>
nMoonraker == <<"m", "o", "o", "n", "r", "a", "k", "e", "r">>
\* the first component of a URI written with a scheme, "file://..."
nScheme == <<"f", "i", "l", "e", ":">>

\* DOCS_DIR, already resolved: "/d"
DOCS_DIR == <<nDocs>>

RECURSIVE JoinNames(_)
\* "/".join(parts)
JoinNames(parts) ==
  IF parts = <<>> THEN <<>>
  ELSE IF Len(parts) = 1 THEN parts[1]
  ELSE parts[1] \o <<"/">> \o JoinNames(Tail(parts))

\* str() of an absolute path
PathStr(p) == <<"/">> \o JoinNames(p)

\* str() of a path relative to the root
RelStr(p) == JoinNames(p)

\* pathlib's parse of a caller-supplied string: "." and empty components
\* are dropped, ".." is kept; abs tells whether the string began with "/"
ParsePath(path) ==
  [abs |-> path.abs, parts |-> SelectSeq(path.parts, LAMBDA c : c # Dot /\ c # <<>>)]

\* DOCS_DIR / path: an absolute right operand replaces the left one
JoinPath(base, path) ==
  LET q == ParsePath(path)
  IN  IF q.abs THEN q.parts ELSE base \o q.parts

(***************************************************************************)
(* The file system: a function from absolute paths to nodes.               *)
(***************************************************************************)
NoNode == [kind |-> "none", content |-> <<>>, target |-> <<>>, readable |-> FALSE]
DirNode == [kind |-> "dir", content |-> <<>>, target |-> <<>>, readable |-> TRUE]
FileNode(c) == [kind |-> "file", content |-> c, target |-> <<>>, readable |-> TRUE]
LinkNode(t) == [kind |-> "link", content |-> <<>>, target |-> t, readable |-> TRUE]

Node(fsys, p) == IF p \in DOMAIN fsys THEN fsys[p] ELSE NoNode

\* Path.exists() of a resolved path
Exists(fsys, p) == p = <<>> \/ Node(fsys, p).kind # "none"

RECURSIVE RealPath(_, _, _)
\* Path.resolve(): ".." pops a component, a symlink is replaced by its
\* (absolute) target, a missing component is kept as written
RealPath(fsys, cur, rest) ==
  IF rest = <<>> THEN cur
  ELSE LET c == Head(rest) IN
       IF c = DotDot
       THEN RealPath(fsys, IF cur = <<>> THEN <<>> ELSE SubSeq(cur, 1, Len(cur) - 1),
                     Tail(rest))
       ELSE IF Node(fsys, Append(cur, c)).kind = "link"
       THEN RealPath(fsys, <<>>, Node(fsys, Append(cur, c)).target \o Tail(rest))
       ELSE RealPath(fsys, Append(cur, c), Tail(rest))

Resolve(fsys, p) == RealPath(fsys, <<>>, p)

RECURSIVE CommonParts(_, _)
\* os.path.commonpath of two absolute paths, as components
CommonParts(a, b) ==
  IF a = <<>> \/ b = <<>> \/ Head(a) # Head(b) THEN <<>>
  ELSE <<Head(a)>> \o CommonParts(Tail(a), Tail(b))

CommonPath(a, b) == PathStr(CommonParts(a, b))

\* p is the root or lies beneath it
Within(root, p) ==
  /\ Len(p) >= Len(root)
  /\ SubSeq(p, 1, Len(root)) = root

(***************************************************************************)
(* Outcomes of an operation.                                               *)
(***************************************************************************)
Raise(e)   == [kind |-> "raise", exc |-> e]
Return(v)  == [kind |-> "return", value |-> v]
NoOutcome  == [kind |-> "none"]
\* no result kept by a caller, no search in progress
NoCall     == [query |-> <<>>, out |-> NoOutcome]
NoScan     == [dirs |-> <<>>, pending |-> <<>>, results |-> <<>>, skipped |-> {}]
\* Optional[int]: None, or an integer n as Some(n)
NoLimit    == <<>>
Some(n)    == <<n>>

(***************************************************************************)
(* StorageManager.                                                         *)
(***************************************************************************)
\* a variant testing the parent of the root
is_available_parent(fsys) == Exists(fsys, SubSeq(DOCS_DIR, 1, Len(DOCS_DIR) - 1))

is_available(fsys) == Exists(fsys, DOCS_DIR)

\* a variant comparing the two strings by prefix
InsideRootTest_prefix(root, target) == StartsWith(PathStr(target), PathStr(root))

\* the comparison made on the common path
InsideRootTest(root, target) == CommonPath(root, target) = PathStr(root)

validate_path(fsys, path) ==
  LET target_path == Resolve(fsys, JoinPath(DOCS_DIR, path))
  IN  IF ~InsideRootTest(DOCS_DIR, target_path)
      THEN Raise("PathTraversalError")
      ELSE Return(target_path)

\* open(target, "r").read(): the outcome and the set of paths opened
OpenRead(fsys, target) ==
  LET n == Node(fsys, target)
  IN  IF n.kind = "dir" \/ target = <<>> THEN Raise("IsADirectoryError")
      ELSE IF n.kind = "none" THEN Raise("FileNotFoundError")
      ELSE IF ~n.readable THEN Raise("PermissionError")
      ELSE Return(n.content)

\* limit = limit or self.config.max_file_chars
EffectiveLimit(limit) ==
  IF limit = NoLimit \/ limit = Some(0) THEN MAX_FILE_CHARS ELSE limit[1]

\* a variant testing existence before validating the path
ReadValidated_existsFirst(fsys, path, offset, limit) ==
  LET target == Resolve(fsys, JoinPath(DOCS_DIR, path))
      v == validate_path(fsys, path)
  IN  IF ~Exists(fsys, target)
      THEN [out |-> Raise("ResourceNotFoundError"), opened |-> {}]
      ELSE IF v.kind = "raise" THEN [out |-> v, opened |-> {}]
      ELSE LET r == OpenRead(fsys, v.value)
           IN  IF r.kind = "raise" THEN [out |-> r, opened |-> {v.value}]
               ELSE [out |-> Return([slice |-> PySlice(r.value, offset, offset + limit),
                                     total |-> Len(r.value)]),
                     opened |-> {v.value}]

\* what read_file does once the root is known to exist
ReadValidated(fsys, path, offset, limit) ==
  LET v == validate_path(fsys, path)
  IN  IF v.kind = "raise" THEN [out |-> v, opened |-> {}]
      ELSE IF ~Exists(fsys, v.value)
      THEN [out |-> Raise("ResourceNotFoundError"), opened |-> {}]
      ELSE LET r == OpenRead(fsys, v.value)
           IN  IF r.kind = "raise" THEN [out |-> r, opened |-> {v.value}]
               ELSE [out |-> Return([slice |-> PySlice(r.value, offset, offset + limit),
                                     total |-> Len(r.value)]),
                     opened |-> {v.value}]

read_file(fsys, path, offset, limit) ==
  IF ~is_available(fsys)
  THEN [out |-> Raise("DocumentationNotAvailableError"), opened |-> {}]
  ELSE ReadValidated(fsys, path, offset, EffectiveLimit(limit))

(***************************************************************************)
(* server.py: read_doc and handle_read_resource.                           *)
(***************************************************************************)
NoFooter == <<>>

\* a returned text: a fixed message, or a slice of a file and its footer
\* "[... Showing characters S-E of T total]" as <<S, E, T>>
Message(m) == [msg |-> m, body |-> <<>>, footer |-> NoFooter]
Content(body, footer) == [msg |-> "", body |-> body, footer |-> footer]

\* a variant counting a slice that ends exactly at the end as truncated
Truncated_inclusive(end, total_chars) == end <= total_chars

\* truncated = end < total_chars
Truncated(end, total_chars) == end < total_chars

\* the pagination part of read_doc, on the content read
ReadDocPage(content, offset, limit) ==
  LET total_chars == Len(content)
      end == offset + limit
  IN  Content(PySlice(content, offset, end),
              IF offset > 0 \/ Truncated(end, total_chars)
              THEN <<offset, Min(end, total_chars), total_chars>>
              ELSE NoFooter)

\* what read_doc does once the root is known to exist
ReadDocChecked(fsys, path, offset, limit) ==
  LET target_path == Resolve(fsys, JoinPath(DOCS_DIR, path))
  IN  IF ~InsideRootTest(DOCS_DIR, target_path)
      THEN [out |-> Return(Message("Access denied: path traversal attempt")), opened |-> {}]
      ELSE IF ~Exists(fsys, target_path)
      THEN [out |-> Return(Message("File not found")), opened |-> {}]
      ELSE LET r == OpenRead(fsys, target_path)
           IN  IF r.kind = "raise"
               THEN [out |-> Return(Message("Error reading file")), opened |-> {target_path}]
               ELSE [out |-> Return(ReadDocPage(r.value, offset, limit)),
                     opened |-> {target_path}]

read_doc(fsys, path, offset, limit) ==
  IF ~Exists(fsys, DOCS_DIR)
  THEN [out |-> Return(Message("Documentation directory not found. Run sync_docs() first.")),
        opened |-> {}]
  ELSE ReadDocChecked(fsys, path, offset, IF limit = NoLimit THEN MAX_FILE_CHARS ELSE limit[1])

\* the security check of handle_read_resource, made on the two strings
ResourceInsideTest(root, file_path) == StartsWith(PathStr(file_path), PathStr(root))

handle_read_resource(fsys, uri) ==
  LET file_path == Resolve(fsys, JoinPath(DOCS_DIR, uri))
  IN  IF ~ResourceInsideTest(DOCS_DIR, file_path)
      THEN [out |-> Raise("ValueError"), opened |-> {}]
      ELSE IF ~Exists(fsys, file_path)
      THEN [out |-> Raise("FileNotFoundError"), opened |-> {}]
      ELSE LET r == OpenRead(fsys, file_path)
           IN  IF r.kind = "raise" THEN [out |-> r, opened |-> {file_path}]
               ELSE [out |-> Return([body |-> PySlice(r.value, 0, MAX_FILE_CHARS),
                                     truncated |-> Len(r.value) > MAX_FILE_CHARS]),
                     opened |-> {file_path}]

(***************************************************************************)
(* SearchEngine: matching inside one file.                                 *)
(***************************************************************************)
\* what \s and str.strip() take for white space
IsSpace(c) == c \in {" ", "\n", "\t"}

RECURSIVE LStrip(_)
LStrip(s) == IF s # <<>> /\ IsSpace(Head(s)) THEN LStrip(Tail(s)) ELSE s

RECURSIVE RStrip(_)
RStrip(s) ==
  IF s # <<>> /\ IsSpace(s[Len(s)]) THEN RStrip(SubSeq(s, 1, Len(s) - 1)) ELSE s

\* str.strip()
Strip(s) == RStrip(LStrip(s))

\* re.escape(query) under re.IGNORECASE matches at 0-based position i
CiOccursAt(content, query, i) ==
  /\ i >= 0
  /\ i + Len(query) <= Len(content)
  /\ \A k \in 1..Len(query) : LowerChar(content[i + k]) = LowerChar(query[k])

\* the least element of a non-empty set of positions
First(positions) == CHOOSE p \in positions : \A q \in positions : p <= q

\* the position where the line holding position i ends: the next "\n" or
\* the end of the content
LineEnd(content, i) ==
  LET breaks == {j \in i..(Len(content) - 1) : At(content, j) = "\n"}
  IN  IF breaks = {} THEN Len(content) ELSE First(breaks)

RECURSIVE HashRun(_, _)
\* the number of consecutive "#" from position i
HashRun(content, i) ==
  IF i < Len(content) /\ At(content, i) = "#" THEN 1 + HashRun(content, i + 1) ELSE 0

\* ^(#{1,6}\s.*QUERY.*)$ tried at position p: where the match ends, or -1.
\* The first .* is greedy and stays on one line, so the last occurrence of
\* the query that starts on that line is taken; the final .* runs to the
\* end of the line on which that occurrence ends.
HeadingEndAt(content, query, p) ==
  LET h == HashRun(content, p)
      s == p + h + 1
      cands == {j \in s..LineEnd(content, s) : CiOccursAt(content, query, j)}
  IN  IF /\ (p = 0 \/ At(content, p - 1) = "\n")
         /\ h \in 1..6
         /\ p + h < Len(content)
         /\ IsSpace(At(content, p + h))
         /\ cands # {}
      THEN LineEnd(content, (CHOOSE j \in cands : \A k \in cands : k <= j) + Len(query))
      ELSE -1

RECURSIVE HeadingSpans(_, _, _)
\* heading_pattern.finditer(content): the spans of the matches, left to
\* right, each search starting where the previous match ended
HeadingSpans(content, query, pos) ==
  LET starts == {p \in pos..(Len(content) - 1) : HeadingEndAt(content, query, p) >= 0}
  IN  IF starts = {} THEN <<>>
      ELSE LET p == First(starts)
               e == HeadingEndAt(content, query, p)
           IN  <<[start |-> p, end |-> e]>> \o HeadingSpans(content, query, e)

\* a match as the source keeps it: (position, type, snippet)
Match(pos, type, snippet) == [pos |-> pos, type |-> type, snippet |-> snippet]

HeadingSnippet(content, span) ==
  Strip(PySlice(content, Max(0, span.start - HEADING_CONTEXT),
                Min(Len(content), span.end + HEADING_CONTEXT)))

\* _extract_heading_matches: the matches and the heading ranges
extract_heading_matches(content, query) ==
  LET spans == HeadingSpans(content, query, 0)
  IN  [matches |-> [i \in 1..Len(spans) |->
                      Match(spans[i].start, "heading", HeadingSnippet(content, spans[i]))],
       heading_ranges |-> spans]

RECURSIVE QuerySpans(_, _, _)
\* re.finditer(re.escape(query), content, re.IGNORECASE): non-overlapping
\* occurrences, left to right
QuerySpans(content, query, pos) ==
  LET starts == {p \in pos..(Len(content) - Len(query)) : CiOccursAt(content, query, p)}
  IN  IF starts = {} THEN <<>>
      ELSE LET p == First(starts)
           IN  <<[start |-> p, end |-> p + Len(query)]>>
               \o QuerySpans(content, query, p + Len(query))

\* a variant dropping every occurrence once any heading matched
IsHeading_any(span, heading_ranges) == heading_ranges # <<>>

\* an occurrence lying inside a heading range
IsHeading(span, heading_ranges) ==
  \E i \in 1..Len(heading_ranges) :
    span.start >= heading_ranges[i].start /\ span.end <= heading_ranges[i].end

ContentSnippet(content, span) ==
  Strip(PySlice(content, Max(0, span.start - SNIPPET_LENGTH \div 2),
                Min(Len(content), span.end + SNIPPET_LENGTH \div 2)))

\* a variant keeping the occurrences inside headings too
extract_content_matches_all(content, query, heading_ranges) ==
  LET kept == QuerySpans(content, query, 0)
  IN  [i \in 1..Len(kept) |-> [pos |-> kept[i].start, type |-> "content",
                               snippet |-> Strip(content)]]

\* _extract_content_matches
extract_content_matches(content, query, heading_ranges) ==
  LET kept == SelectSeq(QuerySpans(content, query, 0),
                        LAMBDA sp : ~IsHeading(sp, heading_ranges))
  IN  [i \in 1..Len(kept) |-> Match(kept[i].start, "content", ContentSnippet(content, kept[i]))]

\* _determine_rank
determine_rank(filename_match, matches) ==
  IF filename_match THEN 1
  ELSE IF \E i \in 1..Len(matches) : matches[i].type = "heading" THEN 2
  ELSE 3

RECURSIVE InsertByKey(_, _)
\* x goes after every element whose key is not greater: the sort is stable
InsertByKey(sorted, x) ==
  IF sorted = <<>> THEN <<x>>
  ELSE IF sorted[Len(sorted)][1] <= x[1] THEN Append(sorted, x)
  ELSE Append(InsertByKey(SubSeq(sorted, 1, Len(sorted) - 1), x), sorted[Len(sorted)])

RECURSIVE StableSortPairs(_)
\* list.sort(key=...) on pairs <<key, item>>
StableSortPairs(pairs) ==
  IF pairs = <<>> THEN <<>>
  ELSE InsertByKey(StableSortPairs(SubSeq(pairs, 1, Len(pairs) - 1)), pairs[Len(pairs)])

\* a variant leaving the matches in the order they were recorded
SortedByPos_recorded(matches) == matches

\* seq.sort(key=Key) for a sequence of records, Key given as a field value
SortedByPos(matches) ==
  LET sorted == StableSortPairs([i \in 1..Len(matches) |-> <<matches[i].pos, matches[i]>>])
  IN  [i \in 1..Len(sorted) |-> sorted[i][2]]

\* _get_best_snippet
get_best_snippet(content, matches) ==
  IF matches # <<>> THEN SortedByPos(matches)[1].snippet
  ELSE IF Len(content) > SNIPPET_LENGTH
  THEN PySlice(content, 0, SNIPPET_LENGTH) \o <<".", ".", ".">>
  ELSE content

\* a variant comparing without lowering
FilenameMatch_exact(rel_path, query) == Contains(rel_path, query)

\* query_lower in rel_path.lower()
FilenameMatch(rel_path, query) == Contains(Lower(rel_path), Lower(query))

\* a variant adding a result for every file read
FileResults_always(rel_path, content, query) ==
  <<[rank |-> 3, path |-> rel_path, snippet |-> content]>>

\* the body of the per-file try block once the file is read: the results
\* this file adds (none or one)
FileResults(rel_path, content, query) ==
  LET filename_match == FilenameMatch(rel_path, query)
      h == extract_heading_matches(content, query)
      content_matches == extract_content_matches(content, query, h.heading_ranges)
      all_matches == h.matches \o content_matches
  IN  IF all_matches # <<>> \/ filename_match
      THEN <<[rank |-> determine_rank(filename_match, all_matches),
              path |-> rel_path,
              snippet |-> get_best_snippet(content, all_matches)]>>
      ELSE <<>>

(***************************************************************************)
(* SearchEngine.search: the walk over the tree and the ranked list.        *)
(***************************************************************************)

\* the names a directory listing can hold, in the order the file system
\* returns them
ListingOrder ==
  << <<"b", ".", "m", "d">>, nA, <<"c", ".", "t", "x", "t">>, <<"A", ".", "m", "d">>,
     <<"e", ".", "m", "d">>, <<"n", ".", "p", "y">>, nS, nK, nAd, nLn,
     nBig, nDotH, nKbig, nDotG, nMoonraker, nKlipper >>

\* os.scandir(dir), Path.iterdir(): the entries present, in listing order;
\* a directory reached through a link lists what its target holds
ListDir(fsys, dir) ==
  LET real == Resolve(fsys, dir)
      present == SelectSeq(ListingOrder, LAMBDA n : Node(fsys, Append(real, n)).kind # "none")
  IN  [i \in 1..Len(present) |-> Append(dir, present[i])]

\* DirEntry.is_dir(): symlinks are followed
IsDir(fsys, p) == Node(fsys, Resolve(fsys, p)).kind = "dir"

RECURSIVE WalkFiles(_, _)
RECURSIVE WalkDirs(_, _)
\* os.walk(dir), top-down without following links: the non-directories of
\* dir first, then each subdirectory in turn
WalkFiles(fsys, dir) ==
  LET entries == ListDir(fsys, dir)
      nondirs == SelectSeq(entries, LAMBDA p : ~IsDir(fsys, p))
      dirs    == SelectSeq(entries, LAMBDA p : IsDir(fsys, p) /\ Node(fsys, p).kind # "link")
  IN  nondirs \o WalkDirs(fsys, dirs)

WalkDirs(fsys, dirs) ==
  IF dirs = <<>> THEN <<>>
  ELSE WalkFiles(fsys, Head(dirs)) \o WalkDirs(fsys, Tail(dirs))

\* _is_supported_file
is_supported_file(filename) == EndsWith(filename, nMd) \/ EndsWith(filename, nTxt)

\* file_path.relative_to(self.docs_dir), as a string
RelPath(file_path) == RelStr(SubSeq(file_path, Len(DOCS_DIR) + 1, Len(file_path)))

\* the supported files in the order the walk visits them
SupportedFiles(fsys) ==
  SelectSeq(WalkFiles(fsys, DOCS_DIR), LAMBDA p : is_supported_file(p[Len(p)]))

\* the files of the searched trees and the contents they take
SearchSlots ==
  << <<nDocs, <<"b", ".", "m", "d">> >>, <<nDocs, nA>>,
     <<nDocs, <<"c", ".", "t", "x", "t">> >>, <<nDocs, <<"A", ".", "m", "d">> >>,
     <<nDocs, <<"e", ".", "m", "d">> >>, <<nDocs, nK, nA>>,
     <<nDocs, nK, <<"b", ".", "m", "d">> >>, <<nDocs, nAd, <<"b", ".", "m", "d">> >>,
     <<nDocs, nAd, <<"e", ".", "m", "d">> >>, <<nDocs, nK, <<"e", ".", "m", "d">> >> >>

cHeading == <<"#", " ", "a">>
cBody    == <<"b", " ", "a">>
cOther   == <<"b">>
SearchContents == {cHeading, cBody, cOther}

qEmpty == <<>>
qBlank == <<" ">>
Queries == {qEmpty, qBlank, <<"A">>, <<"b">>, nMd}

\* FileResults of every file, content and query of the searched trees,
\* computed once
KnownFileResults ==
  [x \in {<<SearchSlots[i], c, q>> : i \in 1..Len(SearchSlots), c \in SearchContents,
                                     q \in Queries \ {qEmpty}}
     |-> FileResults(RelPath(x[1]), x[2], x[3])]

\* one pass of the loop body: a file that cannot be read adds nothing
VisitFile(fsys, file_path, query) ==
  LET r == OpenRead(fsys, Resolve(fsys, file_path))
  IN  IF r.kind = "raise" THEN <<>>
      ELSE IF <<file_path, r.value, query>> \in DOMAIN KnownFileResults
      THEN KnownFileResults[<<file_path, r.value, query>>]
      ELSE FileResults(RelPath(file_path), r.value, query)

RECURSIVE Collect(_, _, _)
\* results, in visitation order, before the sort
Collect(fsys, files, query) ==
  IF files = <<>> THEN <<>>
  ELSE VisitFile(fsys, Head(files), query) \o Collect(fsys, Tail(files), query)

\* a variant leaving the results in visitation order
SortByRank_unsorted(results) == results

\* a variant putting, among equal ranks, the file visited later first
SortByRank_backward(results) ==
  LET n == Len(results)
      ranked(k) == SelectSeq([i \in 1..n |-> results[n + 1 - i]], LAMBDA x : x.rank = k)
  IN  ranked(1) \o ranked(2) \o ranked(3)

\* results.sort(key=lambda x: x.rank)
SortByRank(results) ==
  LET sorted == StableSortPairs([i \in 1..Len(results) |-> <<results[i].rank, results[i]>>])
  IN  [i \in 1..Len(sorted) |-> sorted[i][2]]

\* a variant returning every result
Truncate_all(results) == results

\* a variant keeping the last max_results
Truncate_tail(results) ==
  IF Len(results) <= MAX_SEARCH_RESULTS THEN results
  ELSE SubSeq(results, Len(results) - MAX_SEARCH_RESULTS + 1, Len(results))

\* results[:max_results]
Truncate(results) == PySlice(results, 0, MAX_SEARCH_RESULTS)

\* `if not query`
QueryIsEmpty(query) == query = <<>>

\* a variant that keeps the paths returned by the call before and reports
\* only files not yet reported
Scan_resuming(fsys, query) ==
  LET files == SupportedFiles(fsys)
      found == SortByRank(Collect(fsys, files, query))
      before == IF remembered.out.kind = "return" THEN remembered.out.value ELSE <<>>
      fresh == SelectSeq(found, LAMBDA x : \A i \in 1..Len(before) : before[i].path # x.path)
  IN  [out |-> Return(Truncate(fresh)),
       opened |-> {files[i] : i \in 1..Len(files)},
       walked |-> TRUE]

\* the scan, made once the root exists and the query is accepted
Scan(fsys, query) ==
  LET files == SupportedFiles(fsys)
  IN  [out |-> Return(Truncate(SortByRank(Collect(fsys, files, query)))),
       opened |-> {files[i] : i \in 1..Len(files)},
       walked |-> TRUE]

search(fsys, query) ==
  IF ~Exists(fsys, DOCS_DIR)
  THEN [out |-> Raise("DocumentationNotAvailableError"), opened |-> {}, walked |-> FALSE]
  ELSE IF QueryIsEmpty(query)
  THEN [out |-> Raise("SearchQueryEmptyError"), opened |-> {}, walked |-> FALSE]
  ELSE Scan(fsys, query)

\* list_files
list_files(fsys) ==
  IF ~is_available(fsys)
  THEN [out |-> Raise("DocumentationNotAvailableError"), opened |-> {}, walked |-> FALSE]
  ELSE LET files == SupportedFiles(fsys)
       IN  [out |-> Return([i \in 1..Len(files) |-> RelPath(files[i])]),
            opened |-> {}, walked |-> TRUE]

(***************************************************************************)
(* server.py: search_docs, the same search written out in the handler.     *)
(***************************************************************************)
\* the body of the per-file try block of search_docs: every occurrence is
\* recorded as a content match, those inside headings too
ServerFileResults(rel_path, content, query) ==
  LET filename_match == FilenameMatch(rel_path, query)
      heading == HeadingSpans(content, query, 0)
      body == QuerySpans(content, query, 0)
      matches ==
        [i \in 1..Len(heading) |->
           Match(heading[i].start, "heading", HeadingSnippet(content, heading[i]))]
        \o [i \in 1..Len(body) |->
              Match(body[i].start, "content", ContentSnippet(content, body[i]))]
      rank == IF filename_match THEN 1
              ELSE IF \E i \in 1..Len(matches) : matches[i].type = "heading" THEN 2
              ELSE 3
      best_snippet ==
        IF matches # <<>> THEN SortedByPos(matches)[1].snippet
        ELSE IF Len(content) > SNIPPET_LENGTH
        THEN PySlice(content, 0, SNIPPET_LENGTH) \o <<".", ".", ".">>
        ELSE content
  IN  IF matches # <<>> \/ filename_match
      THEN <<[rank |-> rank, path |-> rel_path, snippet |-> best_snippet]>>
      ELSE <<>>

RECURSIVE ServerCollect(_, _, _)
\* the loop over the walk: a file that cannot be read adds nothing
ServerCollect(fsys, files, query) ==
  IF files = <<>> THEN <<>>
  ELSE LET r == OpenRead(fsys, Resolve(fsys, Head(files)))
       IN  (IF r.kind = "raise" THEN <<>>
            ELSE ServerFileResults(RelPath(Head(files)), r.value, query))
           \o ServerCollect(fsys, Tail(files), query)

RECURSIVE JoinLines(_)
\* "\n".join(output)
JoinLines(output) ==
  IF output = <<>> THEN <<>>
  ELSE IF Len(output) = 1 THEN output[1]
  ELSE output[1] \o <<"\n">> \o JoinLines(Tail(output))

\* f"## {path}\n{snippet}\n" of every result, joined
FormatResults(results) ==
  JoinLines([i \in 1..Len(results) |->
               <<"#", "#", " ">> \o results[i].path \o <<"\n">>
               \o results[i].snippet \o <<"\n">>])

\* search_docs: the text returned, and the list it was formatted from
search_docs(fsys, query) ==
  IF ~Exists(fsys, DOCS_DIR)
  THEN [out |-> Return(Message("Documentation directory not found. Run sync_docs() first.")),
        results |-> <<>>, walked |-> FALSE]
  ELSE IF QueryIsEmpty(query)
  THEN [out |-> Return(Message("Please provide a search query.")),
        results |-> <<>>, walked |-> FALSE]
  ELSE LET results == Truncate(SortByRank(ServerCollect(fsys, SupportedFiles(fsys), query)))
       IN  [out |-> IF results = <<>>
                    THEN Return([msg |-> "No results found for", body |-> query,
                                 footer |-> NoFooter])
                    ELSE Return(Content(FormatResults(results), NoFooter)),
            results |-> results, walked |-> TRUE]

(***************************************************************************)
(* The rendered tree: StorageManager.build_tree and list_docs_map.         *)
(***************************************************************************)
\* the characters of the names, in the order of their code points
CodeOrder ==
  <<" ", "#", ".", "/", "2", ":">> \o UpperChars \o <<"_">> \o LowerChars

RECURSIVE StrLess(_, _)
\* Python's a < b on two strings
StrLess(a, b) ==
  IF b = <<>> THEN FALSE
  ELSE IF a = <<>> THEN TRUE
  ELSE IF Head(a) = Head(b) THEN StrLess(Tail(a), Tail(b))
  ELSE (CHOOSE i \in 1..Len(CodeOrder) : CodeOrder[i] = Head(a))
         < (CHOOSE i \in 1..Len(CodeOrder) : CodeOrder[i] = Head(b))

\* a variant comparing the names as they are written
TreeKeyLess_cased(dir1, name1, dir2, name2) ==
  \/ dir1 /\ ~dir2
  \/ dir1 = dir2 /\ StrLess(name1, name2)

\* (not x.is_dir(), x.name.lower()) of one entry is less than that of another
TreeKeyLess(dir1, name1, dir2, name2) ==
  \/ dir1 /\ ~dir2
  \/ dir1 = dir2 /\ StrLess(Lower(name1), Lower(name2))

\* sorted(path.iterdir(), key=...): a stable sort, each entry keyed by the
\* number of entries whose key is less than its own
SortedEntries(fsys, entries) ==
  LET Less(a, b) == TreeKeyLess(IsDir(fsys, a), a[Len(a)], IsDir(fsys, b), b[Len(b)])
      pairs == [i \in 1..Len(entries) |->
                  <<Cardinality({j \in 1..Len(entries) : Less(entries[j], entries[i])}),
                    entries[i]>>]
      sorted == StableSortPairs(pairs)
  IN  [i \in 1..Len(sorted) |-> sorted[i][2]]

\* a variant hiding nothing
Hidden_none(name) == FALSE

\* e.name.startswith(".")
Hidden(name) == StartsWith(name, <<".">>)

\* iterdir() of a directory that may not be listed raises PermissionError
Listable(fsys, path) == Node(fsys, Resolve(fsys, path)).readable

\* one rendered line, f"{prefix}{connector}{entry.name}" with "/" after the
\* name of a directory, kept as its parts; the prefix is the sequence of the
\* extensions added on the way down.  The box-drawing connectors are
\* written "|-- " and "+-- ", the extensions "|   " and "    ".
TreeLine(prefix, connector, name, dir) ==
  [prefix |-> prefix, connector |-> connector, name |-> name, dir |-> dir]

RECURSIVE build_tree(_, _, _)
RECURSIVE TreeLines(_, _, _, _)
\* the loop of build_tree over the sorted, filtered entries, from the i-th
TreeLines(fsys, entries, i, prefix) ==
  IF i > Len(entries) THEN <<>>
  ELSE LET entry == entries[i]
           is_last_entry == i = Len(entries)
           connector == IF is_last_entry THEN "+-- " ELSE "|-- "
           extension == IF is_last_entry THEN "    " ELSE "|   "
       IN  <<TreeLine(prefix, connector, entry[Len(entry)], IsDir(fsys, entry))>>
           \o (IF IsDir(fsys, entry)
               THEN build_tree(fsys, entry, Append(prefix, extension))
               ELSE <<>>)
           \o TreeLines(fsys, entries, i + 1, prefix)

\* build_tree(path, prefix)
build_tree(fsys, path, prefix) ==
  IF ~Listable(fsys, path) THEN <<>>
  ELSE TreeLines(fsys,
                 SelectSeq(SortedEntries(fsys, ListDir(fsys, path)),
                           LAMBDA e : ~Hidden(e[Len(e)])),
                 1, prefix)

\* StorageManager.build_tree(): iterdir() of a missing root is not recovered
storage_build_tree(fsys) ==
  IF ~Exists(fsys, DOCS_DIR) THEN Raise("FileNotFoundError")
  ELSE Return(build_tree(fsys, DOCS_DIR, <<>>))

\* list_docs_map: the root line, then the tree
list_docs_map(fsys) ==
  IF ~Exists(fsys, DOCS_DIR)
  THEN Return(Message("Documentation directory not found. Run sync_docs() first."))
  ELSE Return(<<TreeLine(<<>>, "", DOCS_DIR[Len(DOCS_DIR)], TRUE)>>
              \o build_tree(fsys, DOCS_DIR, <<>>))

(***************************************************************************)
(* GitManager: synchronisation with the repositories.  What a git          *)
(* subprocess does is an input: it exits zero ("ok"), exits non-zero       *)
(* ("fail"), is cut by its timeout ("timeout": subprocess.TimeoutExpired)  *)
(* or cannot be started ("missing": FileNotFoundError).                    *)
(***************************************************************************)
\* the configured repositories, in the order of the configuration
REPOSITORIES == <<nKlipper, nMoonraker>>

\* repo_config.get("sparse_path", ""): "docs/" for both repositories
sparse_path(name) == <<"d", "o", "c", "s", "/">>

\* self.docs_dir / name
RepoDir(name) == Append(DOCS_DIR, name)

SyncResult(name, success, message, cloned, updated) ==
  [repo_name |-> name, success |-> success, message |-> message,
   was_cloned |-> cloned, was_updated |-> updated]

\* the exception subprocess.run raises for an outcome that is no exit code
GitRaises(o) == o \in {"timeout", "missing"}
GitException(o) == IF o = "timeout" THEN "TimeoutExpired" ELSE "FileNotFoundError"

\* _clone_repository, steps being the outcomes of clone, config,
\* sparse-checkout set and checkout; left tells whether a clone cut by its
\* timeout leaves the directory behind.  The outcome and the tree after it.
clone_repository(fsys, name, steps, left) ==
  LET cloned == (RepoDir(name) :> DirNode) @@ fsys
      sparse == sparse_path(name) # <<>>
  IN  IF GitRaises(steps[1])
      THEN [out |-> Raise(GitException(steps[1])),
            fs |-> IF left /\ steps[1] = "timeout" THEN cloned ELSE fsys]
      ELSE IF steps[1] # "ok"
      THEN [out |-> Return(SyncResult(name, FALSE, "Clone failed", FALSE, FALSE)), fs |-> fsys]
      ELSE IF sparse /\ \E k \in 2..4 : GitRaises(steps[k])
      THEN [out |-> Raise(GitException(steps[CHOOSE k \in 2..4 :
                              GitRaises(steps[k]) /\ \A j \in 2..(k - 1) : ~GitRaises(steps[j])])),
            fs |-> cloned]
      ELSE [out |-> Return(SyncResult(name, TRUE, "Successfully cloned.", TRUE, FALSE)),
            fs |-> cloned]

\* _update_repository, steps[1] being the outcome of the pull
update_repository(fsys, name, steps) ==
  IF GitRaises(steps[1]) THEN [out |-> Raise(GitException(steps[1])), fs |-> fsys]
  ELSE IF steps[1] # "ok"
  THEN [out |-> Return(SyncResult(name, FALSE, "Update failed", FALSE, FALSE)), fs |-> fsys]
  ELSE [out |-> Return(SyncResult(name, TRUE, "pull output or Already up to date.",
                                  FALSE, TRUE)),
        fs |-> fsys]

\* a variant without the try block
sync_repository_unguarded(fsys, name, steps, left) ==
  IF ~Exists(fsys, RepoDir(name)) THEN clone_repository(fsys, name, steps, left)
  ELSE update_repository(fsys, name, steps)

\* sync_repository: whatever is raised inside becomes a failed SyncResult
sync_repository(fsys, name, steps, left) ==
  LET r == IF ~Exists(fsys, RepoDir(name)) THEN clone_repository(fsys, name, steps, left)
           ELSE update_repository(fsys, name, steps)
  IN  IF r.out.kind = "raise"
      THEN [out |-> Return(SyncResult(name, FALSE, "Error", FALSE, FALSE)), fs |-> r.fs]
      ELSE r

RECURSIVE SyncFrom(_, _, _, _, _)
\* the loop of sync_all from the i-th repository on: an exception leaving
\* sync_repository would leave the loop and sync_all
SyncFrom(fsys, i, env, left, results) ==
  IF i > Len(REPOSITORIES) THEN [out |-> Return(results), fs |-> fsys]
  ELSE LET r == sync_repository(fsys, REPOSITORIES[i], env[i], left)
       IN  IF r.out.kind = "raise" THEN r
           ELSE SyncFrom(r.fs, i + 1, env, left, Append(results, r.out.value))

\* a variant that does not make the root
EnsureRoot_skip(fsys) == fsys

\* self.docs_dir.mkdir(parents=True, exist_ok=True) when the root is missing
EnsureRoot(fsys) == IF Exists(fsys, DOCS_DIR) THEN fsys ELSE (DOCS_DIR :> DirNode) @@ fsys

\* sync_all
sync_all(fsys, env, left) == SyncFrom(EnsureRoot(fsys), 1, env, left, <<>>)

\* the revisions rev-parse can print
Hashes == {"h1", "h2"}

\* a variant comparing the two outputs without looking at the exit codes
RevsDiffer_unchecked(local_rev, remote_rev) == local_rev # remote_rev

\* both lookups exited zero and printed different revisions; a lookup is
\* the revision printed, or "fail" for a non-zero exit
RevsDiffer(local_rev, remote_rev) ==
  local_rev \in Hashes /\ remote_rev \in Hashes /\ local_rev # remote_rev

\* the try block of check_if_outdated for one repository, c holding the
\* outcomes of fetch and of the two lookups: "differs", "same", or "skipped"
\* when TimeoutExpired or FileNotFoundError was raised and caught
CheckRepo(c) ==
  IF GitRaises(c.fetch) \/ GitRaises(c.local) \/ GitRaises(c.remote)
  THEN "skipped"
  ELSE IF RevsDiffer(c.local, c.remote) THEN "differs" ELSE "same"

RECURSIVE CheckFrom(_, _, _)
\* the loop of GitManager.check_if_outdated: returns at the first
\* repository that differs
CheckFrom(fsys, i, cenv) ==
  IF i > Len(REPOSITORIES) THEN FALSE
  ELSE IF ~Exists(fsys, RepoDir(REPOSITORIES[i])) THEN CheckFrom(fsys, i + 1, cenv)
  ELSE IF CheckRepo(cenv[i]) = "differs" THEN TRUE
  ELSE CheckFrom(fsys, i + 1, cenv)

\* GitManager.check_if_outdated
check_if_outdated(fsys, cenv) ==
  IF ~Exists(fsys, DOCS_DIR) THEN FALSE ELSE CheckFrom(fsys, 1, cenv)

\* check_if_outdated of server.py: every repository is checked and the
\* flag any_outdated is returned
server_check_if_outdated(fsys, cenv) ==
  IF ~Exists(fsys, DOCS_DIR) THEN FALSE
  ELSE \E i \in 1..Len(REPOSITORIES) :
         /\ Exists(fsys, RepoDir(REPOSITORIES[i]))
         /\ CheckRepo(cenv[i]) = "differs"

(***************************************************************************)
(* server.py: sync_docs, the same synchronisation written out in the       *)
(* handler, followed by the check for updates.                             *)
(***************************************************************************)
\* one line of the output, about a repository or about all of them
Line(text, name) == [text |-> text, name |-> name]

UpToDateLine == Line("All documentation repositories are up to date.", <<>>)

\* the texts that report a repository that was not synchronised
FailureTexts == {"Clone failed for", "Update failed for", "Error syncing"}

\* the body of the loop for one repository: the lines it adds and the tree
\* after it.  The clone and the pull run under a timeout; the three steps
\* after the clone do not, and their exit codes are not looked at.
SyncDocsRepo(fsys, name, steps, left) ==
  LET cloned == (RepoDir(name) :> DirNode) @@ fsys
      header == <<Line("--- Syncing", name)>>
  IN  IF ~Exists(fsys, RepoDir(name))
      THEN IF GitRaises(steps[1])
           THEN [lines |-> header \o <<Line("Cloning", name), Line("Error syncing", name)>>,
                 fs |-> IF left /\ steps[1] = "timeout" THEN cloned ELSE fsys]
           ELSE IF steps[1] # "ok"
           THEN [lines |-> header \o <<Line("Cloning", name), Line("Clone failed for", name)>>,
                 fs |-> fsys]
           ELSE IF sparse_path(name) # <<>> /\ \E k \in 2..4 : steps[k] = "missing"
           THEN [lines |-> header \o <<Line("Cloning", name), Line("Error syncing", name)>>,
                 fs |-> cloned]
           ELSE [lines |-> header \o <<Line("Cloning", name),
                                       Line("Successfully cloned", name)>>,
                 fs |-> cloned]
      ELSE IF GitRaises(steps[1])
           THEN [lines |-> header \o <<Line("Updating", name), Line("Error syncing", name)>>,
                 fs |-> fsys]
           ELSE IF steps[1] # "ok"
           THEN [lines |-> header \o <<Line("Updating", name), Line("Update failed for", name)>>,
                 fs |-> fsys]
           ELSE [lines |-> header \o <<Line("Updating", name),
                                       Line("pull output or Already up to date.", name)>>,
                 fs |-> fsys]

RECURSIVE SyncDocsFrom(_, _, _, _, _)
\* the loop of sync_docs from the i-th repository on
SyncDocsFrom(fsys, i, env, left, lines) ==
  IF i > Len(REPOSITORIES) THEN [lines |-> lines, fs |-> fsys]
  ELSE LET r == SyncDocsRepo(fsys, REPOSITORIES[i], env[i], left)
       IN  SyncDocsFrom(r.fs, i + 1, env, left, lines \o r.lines)

\* sync_docs: the lines returned, the tree and the flag after it
sync_docs(fsys, env, cenv, left) ==
  LET r == SyncDocsFrom(EnsureRoot(fsys), 1, env, left, <<>>)
      outdated == server_check_if_outdated(r.fs, cenv)
  IN  [out |-> Return(IF ~outdated THEN Append(r.lines, UpToDateLine) ELSE r.lines),
       fs |-> r.fs,
       docs_outdated |-> outdated]

(***************************************************************************)
(* Inputs and initial file systems.                                        *)
(***************************************************************************)
Components == {DotDot, Dot, nA, nS, nLn, nDocs2, nEtc}

RECURSIVE SeqsUpTo(_, _)
SeqsUpTo(S, n) ==
  IF n = 0 THEN {<<>>}
  ELSE LET shorter == SeqsUpTo(S, n - 1)
       IN  shorter \cup {Append(x, c) : x \in shorter, c \in S}

\* caller-supplied paths: relative or absolute, up to MaxParts components
Paths == [abs : BOOLEAN, parts : SeqsUpTo(Components, MaxParts)]

\* the path of the paginated file, and the pagination arguments
PagePaths == {[abs |-> FALSE, parts |-> <<nA>>]}
Offsets == -1..(MaxLen + 1)
Limits == {NoLimit} \cup {Some(n) : n \in (-(MaxLen + 1))..(MaxLen + 1)}

\* the URI "file://a.md": the scheme, the empty component between the two
\* slashes, and the root-relative path of a supported file
SchemeUris == {[abs |-> FALSE, parts |-> <<nScheme, <<>>, nA>>]}

\* what lies outside the root: a sibling whose name begins like the root's,
\* and an unrelated directory
OutsideFs ==
  (<<nDocs2>> :> DirNode) @@ (<<nDocs2, nS>> :> FileNode(<<"x">>)) @@
  (<<nEtc>> :> DirNode) @@ (<<nEtc, nS>> :> FileNode(<<"y">>))

\* the first n letters: a text whose characters tell their positions
Letters(n) == [i \in 1..n |-> LowerChars[i]]

\* a root holding one file of n characters and, or not, a link leading out
RootFs(n, withLink) ==
  (DOCS_DIR :> DirNode) @@ (<<nDocs, nA>> :> FileNode(Letters(n))) @@
  (IF withLink THEN (<<nDocs, nLn>> :> LinkNode(<<nEtc>>)) ELSE <<>>)

InitFs ==
  {OutsideFs} \cup {RootFs(n, FALSE) @@ OutsideFs : n \in 0..MaxLen}
              \cup {RootFs(2, TRUE) @@ OutsideFs}

Init ==
  /\ fs \in InitFs
  /\ op = [name |-> "none"]
  /\ outcome = NoOutcome
  /\ opened = {}
  /\ walked = FALSE
  /\ remembered = NoCall
  /\ scan = NoScan
  /\ docs_outdated = FALSE
  /\ synced = FALSE

\* the searched trees: NumFiles supported files, each with one of three
\* contents, and one unsupported file
SearchFs(assign) ==
  LET used == {SearchSlots[i] : i \in 1..NumFiles}
      fixed == (DOCS_DIR :> DirNode) @@ (<<nDocs, nK>> :> DirNode) @@
               (<<nDocs, nAd>> :> DirNode) @@
               (<<nDocs, <<"n", ".", "p", "y">> >> :> FileNode(<<"a">>))
  IN  [p \in used |-> FileNode(assign[CHOOSE i \in 1..NumFiles : SearchSlots[i] = p])]
      @@ fixed @@ OutsideFs

InitSearch ==
  /\ fs \in {SearchFs(assign) : assign \in [1..NumFiles -> SearchContents]}
  /\ op = [name |-> "none"]
  /\ outcome = NoOutcome
  /\ opened = {}
  /\ walked = FALSE
  /\ remembered = NoCall
  /\ scan = NoScan
  /\ docs_outdated = FALSE
  /\ synced = FALSE

(***************************************************************************)
(* Operations.                                                             *)
(***************************************************************************)
\* one request is processed at a time: an operation starts only when no
\* result is pending
Idle == op.name = "none"

\* the pending result is handed to the caller
Respond ==
  /\ ~Idle
  /\ outcome # NoOutcome
  /\ op' = [name |-> "none"]
  /\ outcome' = NoOutcome
  /\ opened' = {}
  /\ walked' = FALSE
  /\ UNCHANGED <<fs, aside>>

ValidatePath(path) ==
  /\ Idle
  /\ op' = [name |-> "validate_path", path |-> path]
  /\ outcome' = validate_path(fs, path)
  /\ opened' = {}
  /\ walked' = FALSE
  /\ UNCHANGED <<fs, aside>>

ReadFile(path, offset, limit) ==
  /\ Idle
  /\ \E r \in {read_file(fs, path, offset, limit)} :
      /\ op' = [name |-> "read_file", path |-> path, offset |-> offset, limit |-> limit]
      /\ outcome' = r.out
      /\ opened' = r.opened
      /\ walked' = FALSE
      /\ UNCHANGED <<fs, aside>>

ReadDoc(path, offset, limit) ==
  /\ Idle
  /\ \E r \in {read_doc(fs, path, offset, limit)} :
      /\ op' = [name |-> "read_doc", path |-> path, offset |-> offset, limit |-> limit]
      /\ outcome' = r.out
      /\ opened' = r.opened
      /\ walked' = FALSE
      /\ UNCHANGED <<fs, aside>>

ReadResource(uri) ==
  /\ Idle
  /\ \E r \in {handle_read_resource(fs, uri)} :
      /\ op' = [name |-> "read_resource", path |-> uri]
      /\ outcome' = r.out
      /\ opened' = r.opened
      /\ walked' = FALSE
      /\ UNCHANGED <<fs, aside>>

Search(query) ==
  /\ Idle
  /\ \E r \in {search(fs, query)} :
      /\ op' = [name |-> "search", query |-> query]
      /\ outcome' = r.out
      /\ opened' = r.opened
      /\ walked' = r.walked
      /\ UNCHANGED <<fs, aside>>

ListFiles ==
  /\ Idle
  /\ \E r \in {list_files(fs)} :
      /\ op' = [name |-> "list_files"]
      /\ outcome' = r.out
      /\ opened' = r.opened
      /\ walked' = r.walked
      /\ UNCHANGED <<fs, aside>>

ListDocsMap ==
  /\ Idle
  /\ op' = [name |-> "list_docs_map"]
  /\ outcome' = list_docs_map(fs)
  /\ opened' = {}
  /\ walked' = Exists(fs, DOCS_DIR)
  /\ UNCHANGED <<fs, aside>>

BuildTree ==
  /\ Idle
  /\ op' = [name |-> "build_tree"]
  /\ outcome' = storage_build_tree(fs)
  /\ opened' = {}
  /\ walked' = Exists(fs, DOCS_DIR)
  /\ UNCHANGED <<fs, aside>>

Next ==
  \/ \E p \in Paths : ValidatePath(p)
  \/ \E p \in Paths : ReadFile(p, 0, NoLimit)
  \/ \E p \in Paths : ReadDoc(p, 0, NoLimit)
  \/ \E p \in PagePaths, o \in Offsets, l \in Limits : ReadFile(p, o, l)
  \/ \E p \in PagePaths, o \in Offsets, l \in Limits : ReadDoc(p, o, l)
  \/ \E u \in Paths : ReadResource(u)
  \/ \E u \in SchemeUris : ReadResource(u)
  \/ \E q \in Queries : Search(q)
  \/ ListFiles
  \/ ListDocsMap
  \/ Respond

Spec == Init /\ [][Next]_vars

NextSearch ==
  \/ \E q \in Queries : Search(q)
  \/ Respond

SpecSearch == InitSearch /\ [][NextSearch]_vars

(***************************************************************************)
(* Repeated searches: a caller keeps one result and searches again.        *)
(***************************************************************************)
\* the caller takes the pending result of a search and keeps it
Remember ==
  /\ ~Idle
  /\ op.name = "search"
  /\ remembered' = [query |-> op.query, out |-> outcome]
  /\ op' = [name |-> "none"]
  /\ outcome' = NoOutcome
  /\ opened' = {}
  /\ walked' = FALSE
  /\ UNCHANGED <<fs, scan, docs_outdated, synced>>

\* the trees searched repeatedly: the first three files take every content
InitRepeat ==
  /\ fs \in {SearchFs(assign) : assign \in {a \in [1..NumFiles -> SearchContents] :
                                              \A i \in 4..NumFiles : a[i] = cOther}}
  /\ op = [name |-> "none"]
  /\ outcome = NoOutcome
  /\ opened = {}
  /\ walked = FALSE
  /\ remembered = NoCall
  /\ scan = NoScan
  /\ docs_outdated = FALSE
  /\ synced = FALSE

NextRepeat ==
  \/ \E q \in Queries : Search(q)
  \/ \E p \in PagePaths : ReadFile(p, 0, NoLimit)
  \/ \E p \in PagePaths : ReadDoc(p, 0, NoLimit)
  \/ ListFiles
  \/ Remember
  \/ Respond

SpecRepeat == InitRepeat /\ [][NextRepeat]_vars

(***************************************************************************)
(* The rendered tree: the document trees and the two operations.           *)
(***************************************************************************)
\* a document tree made of optional parts: two files whose names differ in
\* case from the directories', a dot-named file, a dot-named directory
\* holding a file, a directory K (absent, empty, holding a file, or holding
\* a file and not listable), a directory a (absent, holding two files whose
\* names differ by case only, or holding in addition a directory with a
\* file) and a link to a directory outside the root
TreeFs(c) ==
  LET opt(cond, f) == IF cond THEN f ELSE <<>>
  IN  (DOCS_DIR :> DirNode)
      @@ opt(c.a, <<nDocs, nA>> :> FileNode(<<"x">>))
      @@ opt(c.big, <<nDocs, nBig>> :> FileNode(<<"x">>))
      @@ opt(c.dotfile, <<nDocs, nDotH>> :> FileNode(<<"x">>))
      @@ opt(c.dotdir, (<<nDocs, nDotG>> :> DirNode) @@ (<<nDocs, nDotG, nA>> :> FileNode(<<"x">>)))
      @@ opt(c.K # "absent",
             <<nDocs, nKbig>> :> [DirNode EXCEPT !.readable = c.K # "locked"])
      @@ opt(c.K \in {"full", "locked"}, <<nDocs, nKbig, nA>> :> FileNode(<<"x">>))
      @@ opt(c.ad # "absent",
             (<<nDocs, nAd>> :> DirNode) @@ (<<nDocs, nAd, nBig>> :> FileNode(<<"x">>))
             @@ (<<nDocs, nAd, <<"b", ".", "m", "d">> >> :> FileNode(<<"x">>)))
      @@ opt(c.ad = "nested",
             (<<nDocs, nAd, nK>> :> DirNode) @@ (<<nDocs, nAd, nK, nA>> :> FileNode(<<"x">>)))
      @@ opt(c.link, <<nDocs, nLn>> :> LinkNode(<<nEtc>>))
      @@ OutsideFs

TreeChoices ==
  [a : BOOLEAN, big : BOOLEAN, dotfile : BOOLEAN, dotdir : BOOLEAN,
   K : {"absent", "empty", "full", "locked"}, ad : {"absent", "full", "nested"},
   link : BOOLEAN]

InitTree ==
  /\ fs \in {OutsideFs} \cup {TreeFs(c) : c \in TreeChoices}
  /\ op = [name |-> "none"]
  /\ outcome = NoOutcome
  /\ opened = {}
  /\ walked = FALSE
  /\ remembered = NoCall
  /\ scan = NoScan
  /\ docs_outdated = FALSE
  /\ synced = FALSE

NextTree ==
  \/ ListDocsMap
  \/ BuildTree
  \/ Respond

SpecTree == InitTree /\ [][NextTree]_vars

(***************************************************************************)
(* Synchronisation: the trees, the outcomes of git and the operations.     *)
(***************************************************************************)
\* what the four steps of one repository's sync can do: each exits zero,
\* exits non-zero or is cut by its timeout, or git cannot be started at all
StepOutcomes ==
  [1..4 -> {"ok", "fail", "timeout"}] \cup {[k \in 1..4 |-> "missing"]}

\* what fetch and the two lookups of one repository's check can do
CheckOutcomes ==
  [fetch : {"ok", "fail", "timeout", "missing"},
   local : {"h1", "fail", "timeout"},
   remote : Hashes \cup {"fail", "timeout", "missing"}]

\* the root holding the directories of the given repositories
RepoFs(names) == (DOCS_DIR :> DirNode) @@ [p \in {RepoDir(n) : n \in names} |-> DirNode]
                 @@ OutsideFs

InitSync ==
  /\ fs \in {OutsideFs} \cup {RepoFs(names) : names \in SUBSET {nKlipper, nMoonraker}}
  /\ op = [name |-> "none"]
  /\ outcome = NoOutcome
  /\ opened = {}
  /\ walked = FALSE
  /\ remembered = NoCall
  /\ scan = NoScan
  /\ docs_outdated = FALSE
  /\ synced = FALSE

SyncAll(env, left) ==
  /\ Idle
  /\ \E r \in {sync_all(fs, env, left)} :
      /\ op' = [name |-> "sync_all", env |-> env, before |-> fs]
      /\ outcome' = r.out
      /\ fs' = r.fs
      /\ synced' = (synced \/ r.out.kind = "return")
  /\ opened' = {}
  /\ walked' = FALSE
  /\ UNCHANGED <<remembered, scan, docs_outdated>>

CheckIfOutdated(cenv) ==
  /\ Idle
  /\ op' = [name |-> "check_if_outdated", cenv |-> cenv]
  /\ outcome' = Return(check_if_outdated(fs, cenv))
  /\ opened' = {}
  /\ walked' = FALSE
  /\ UNCHANGED <<fs, aside>>

ServerCheckIfOutdated(cenv) ==
  /\ Idle
  /\ op' = [name |-> "server_check_if_outdated", cenv |-> cenv]
  /\ outcome' = Return(server_check_if_outdated(fs, cenv))
  /\ opened' = {}
  /\ walked' = FALSE
  /\ UNCHANGED <<fs, aside>>

NextSync ==
  \/ Idle /\ \E env \in [1..Len(REPOSITORIES) -> StepOutcomes], left \in BOOLEAN :
               SyncAll(env, left)
  \/ Idle /\ \E cenv \in [1..Len(REPOSITORIES) -> CheckOutcomes] : CheckIfOutdated(cenv)
  \/ Idle /\ \E cenv \in [1..Len(REPOSITORIES) -> CheckOutcomes] : ServerCheckIfOutdated(cenv)
  \/ Respond

SpecSync == InitSync /\ [][NextSync]_vars

(***************************************************************************)
(* A search step by step, while a sync writes the tree.  os.walk lists a   *)
(* directory when the walk reaches it and the loop opens each file when    *)
(* its turn comes; between two such steps another process may have         *)
(* changed the tree.                                                       *)
(***************************************************************************)
\* a variant catching PermissionError only
CaughtInScan_permission(exc) == exc = "PermissionError"

\* except (IOError, UnicodeDecodeError): IOError is OSError, the base of
\* what open() raises
CaughtInScan(exc) ==
  exc \in {"FileNotFoundError", "PermissionError", "IsADirectoryError",
           "NotADirectoryError", "UnicodeDecodeError"}

\* the two checks search makes first, then the walk is set at the root
SearchStart(query) ==
  /\ Idle
  /\ opened' = {}
  /\ UNCHANGED <<fs, remembered, docs_outdated, synced>>
  /\ IF ~Exists(fs, DOCS_DIR) \/ QueryIsEmpty(query)
     THEN /\ op' = [name |-> "search", query |-> query, scanned |-> FALSE, skipped |-> {}]
          /\ outcome' = search(fs, query).out
          /\ walked' = FALSE
          /\ scan' = NoScan
     ELSE /\ op' = [name |-> "search", query |-> query, scanned |-> TRUE, skipped |-> {}]
          /\ outcome' = NoOutcome
          /\ walked' = TRUE
          /\ scan' = [NoScan EXCEPT !.dirs = <<DOCS_DIR>>]

Scanning == op.name = "search" /\ outcome = NoOutcome

\* os.walk reaches the next directory and lists it as it is now: the
\* supported files wait to be opened, the subdirectories come next; a
\* directory that is gone gives nothing
ScanList ==
  /\ Scanning
  /\ scan.pending = <<>>
  /\ scan.dirs # <<>>
  /\ LET dir == Head(scan.dirs)
         entries == IF IsDir(fs, dir) THEN ListDir(fs, dir) ELSE <<>>
         files == SelectSeq(entries, LAMBDA p : ~IsDir(fs, p) /\ is_supported_file(p[Len(p)]))
         dirs == SelectSeq(entries, LAMBDA p : IsDir(fs, p) /\ Node(fs, p).kind # "link")
     IN  scan' = [scan EXCEPT !.dirs = dirs \o Tail(scan.dirs), !.pending = files]
  /\ UNCHANGED <<fs, op, outcome, opened, walked, remembered, docs_outdated, synced>>

\* the loop body for the next file listed: it is opened as it is now; an
\* exception the except clause catches skips the file, any other ends the
\* search
ScanOpen ==
  /\ Scanning
  /\ scan.pending # <<>>
  /\ LET file_path == Head(scan.pending)
         r == OpenRead(fs, Resolve(fs, file_path))
     IN  /\ opened' = opened \cup {file_path}
         /\ IF r.kind = "raise" /\ ~CaughtInScan(r.exc)
            THEN /\ outcome' = r
                 /\ scan' = NoScan
                 /\ op' = [op EXCEPT !.skipped = scan.skipped]
            ELSE /\ outcome' = NoOutcome
                 /\ op' = op
                 /\ scan' = [scan EXCEPT
                      !.pending = Tail(scan.pending),
                      !.results = IF r.kind = "raise" THEN @
                                  ELSE @ \o FileResults(RelPath(file_path), r.value, op.query),
                      !.skipped = IF r.kind = "raise" THEN @ \cup {RelPath(file_path)} ELSE @]
  /\ UNCHANGED <<fs, walked, remembered, docs_outdated, synced>>

\* the walk is over: the results are sorted, truncated and returned
ScanEnd ==
  /\ Scanning
  /\ scan.pending = <<>>
  /\ scan.dirs = <<>>
  /\ outcome' = Return(Truncate(SortByRank(scan.results)))
  /\ op' = [op EXCEPT !.skipped = scan.skipped]
  /\ scan' = NoScan
  /\ UNCHANGED <<fs, opened, walked, remembered, docs_outdated, synced>>

\* the files a sync writes, all in the repository directory
RaceFiles == {<<nDocs, nKlipper, nA>>, <<nDocs, nKlipper, <<"b", ".", "m", "d">> >>}

\* a sync in another process writes the tree: a pull or a checkout adds a
\* file or replaces its content
SyncWrite(f, content) ==
  /\ IsDir(fs, SubSeq(f, 1, Len(f) - 1))
  /\ fs' = (f :> FileNode(content)) @@ fs
  /\ UNCHANGED <<op, outcome, opened, walked, aside>>

\* ... removes a file
SyncRemove(f) ==
  /\ f \in DOMAIN fs
  /\ fs' = [p \in DOMAIN fs \ {f} |-> fs[p]]
  /\ UNCHANGED <<op, outcome, opened, walked, aside>>

\* ... leaves a file that cannot be read
SyncProtect(f) ==
  /\ f \in DOMAIN fs
  /\ fs[f].readable
  /\ fs' = [fs EXCEPT ![f].readable = FALSE]
  /\ UNCHANGED <<op, outcome, opened, walked, aside>>

\* ... a clone that fails takes away the directory it made, with all it
\* holds; the next clone makes it anew
SyncRemoveDir ==
  /\ RepoDir(nKlipper) \in DOMAIN fs
  /\ fs' = [p \in {q \in DOMAIN fs : ~Within(RepoDir(nKlipper), q)} |-> fs[p]]
  /\ UNCHANGED <<op, outcome, opened, walked, aside>>

SyncClone ==
  /\ Exists(fs, DOCS_DIR)
  /\ RepoDir(nKlipper) \notin DOMAIN fs
  /\ fs' = (RepoDir(nKlipper) :> DirNode) @@ fs
  /\ UNCHANGED <<op, outcome, opened, walked, aside>>

RaceQueries == {<<"A">>}

InitRace ==
  /\ fs = (<<nDocs, nKlipper, nA>> :> FileNode(cHeading))
          @@ (<<nDocs, nKlipper, <<"b", ".", "m", "d">> >> :> FileNode(cBody))
          @@ (<<nDocs, nA>> :> FileNode(cOther))
          @@ RepoFs({nKlipper})
  /\ op = [name |-> "none"]
  /\ outcome = NoOutcome
  /\ opened = {}
  /\ walked = FALSE
  /\ remembered = NoCall
  /\ scan = NoScan
  /\ docs_outdated = FALSE
  /\ synced = FALSE

NextRace ==
  \/ \E q \in RaceQueries : SearchStart(q)
  \/ ScanList
  \/ ScanOpen
  \/ ScanEnd
  \/ \E f \in RaceFiles, c \in {cHeading, cBody} : SyncWrite(f, c)
  \/ \E f \in RaceFiles : SyncRemove(f)
  \/ \E f \in RaceFiles : SyncProtect(f)
  \/ SyncRemoveDir
  \/ SyncClone
  \/ Respond

SpecRace == InitRace /\ [][NextRace]_vars

(***************************************************************************)
(* Matching inside one file: two files of the same content, drawn from     *)
(* short texts and from texts longer than the snippet windows.             *)
(***************************************************************************)
\* longest short text
MaxText == 4

MatchAlphabet == {"#", " ", "a", "\n"}

\* a run of characters wider than half a snippet
Filler == [i \in 1..(SNIPPET_LENGTH \div 2 + 1) |-> "x"]

\* what stands before and after the filler: nothing, an occurrence, a
\* heading below, a heading above
Ends == {<<>>, <<"a">>, <<"\n", "#", " ", "a">>, <<"#", " ", "A", "\n">>}

LongContents ==
  {x \o Filler \o y : x \in Ends, y \in Ends}
    \cup {x \o Filler \o Filler : x \in {<<>>, <<"a">>}}

MatchContents == SeqsUpTo(MatchAlphabet, MaxText) \cup LongContents

MatchFiles == {<<nDocs, nA>>, <<nDocs, <<"e", ".", "m", "d">> >>}

MatchQueries == {<<"a">>, <<"#">>, <<"a", "a">>, <<"#", " ", "a">>, <<"e">>, <<" ">>}

InitMatch ==
  /\ fs \in {(DOCS_DIR :> DirNode) @@ [f \in MatchFiles |-> FileNode(c)] : c \in MatchContents}
  /\ op = [name |-> "none"]
  /\ outcome = NoOutcome
  /\ opened = {}
  /\ walked = FALSE
  /\ remembered = NoCall
  /\ scan = NoScan
  /\ docs_outdated = FALSE
  /\ synced = FALSE

\* one pass of the loop body of search on a readable file: the matches it
\* records and the result it adds
LoopBody(file_path, query) ==
  /\ Idle
  /\ Node(fs, file_path).kind = "file"
  /\ LET content == OpenRead(fs, file_path).value
         h == extract_heading_matches(content, query)
     IN  /\ op' = [name |-> "loop_body", query |-> query, file_path |-> file_path,
                   heading_matches |-> h.matches, heading_ranges |-> h.heading_ranges,
                   content_matches |->
                     extract_content_matches(content, query, h.heading_ranges)]
         /\ outcome' = Return(FileResults(RelPath(file_path), content, query))
  /\ opened' = {file_path}
  /\ walked' = FALSE
  /\ UNCHANGED <<fs, aside>>

SearchDocs(query) ==
  /\ Idle
  /\ \E r \in {search_docs(fs, query)} :
      /\ op' = [name |-> "search_docs", query |-> query, results |-> r.results]
      /\ outcome' = r.out
      /\ walked' = r.walked
  /\ opened' = {}
  /\ UNCHANGED <<fs, aside>>

NextMatch ==
  \/ Idle /\ \E f \in MatchFiles, q \in MatchQueries : LoopBody(f, q)
  \/ Idle /\ \E q \in MatchQueries : Search(q)
  \/ Idle /\ \E q \in MatchQueries \cup {qEmpty} : SearchDocs(q)
  \/ Respond

SpecMatch == InitMatch /\ [][NextMatch]_vars

(***************************************************************************)
(* Serving after a sync: from a missing root, the two synchronisations,    *)
(* the operations that read the root, and the removal of the root.         *)
(***************************************************************************)
\* what the steps of one repository's sync do here: the clone or pull
\* exits zero, exits non-zero or is cut by its timeout, the steps after a
\* clone all exit zero or all exit non-zero, or git cannot be started
ServeSteps ==
  {<<a, b, b, b>> : a \in {"ok", "fail", "timeout"}, b \in {"ok", "fail"}}
    \cup {[k \in 1..4 |-> "missing"]}

\* what the check after the sync finds for one repository
ServeChecks ==
  [fetch : {"ok"}, local : {"h1", "fail"}, remote : Hashes \cup {"timeout"}]

InitServe ==
  /\ fs = OutsideFs
  /\ op = [name |-> "none"]
  /\ outcome = NoOutcome
  /\ opened = {}
  /\ walked = FALSE
  /\ remembered = NoCall
  /\ scan = NoScan
  /\ docs_outdated = FALSE
  /\ synced = FALSE

SyncDocs(env, cenv, left) ==
  /\ Idle
  /\ \E r \in {sync_docs(fs, env, cenv, left)} :
      /\ op' = [name |-> "sync_docs", env |-> env, cenv |-> cenv, before |-> fs]
      /\ outcome' = r.out
      /\ fs' = r.fs
      /\ docs_outdated' = r.docs_outdated
      /\ synced' = TRUE
  /\ opened' = {}
  /\ walked' = FALSE
  /\ UNCHANGED <<remembered, scan>>

\* the root is removed with all it holds, by whoever administers the host
RemoveRoot ==
  /\ Idle
  /\ Exists(fs, DOCS_DIR)
  /\ fs' = [p \in {q \in DOMAIN fs : ~Within(DOCS_DIR, q)} |-> fs[p]]
  /\ synced' = FALSE
  /\ UNCHANGED <<op, outcome, opened, walked, remembered, scan, docs_outdated>>

NextServe ==
  \/ Idle /\ \E env \in [1..Len(REPOSITORIES) -> ServeSteps], left \in BOOLEAN :
               SyncAll(env, left)
  \/ Idle /\ \E env \in [1..Len(REPOSITORIES) -> ServeSteps],
                cenv \in [1..Len(REPOSITORIES) -> ServeChecks], left \in BOOLEAN :
               SyncDocs(env, cenv, left)
  \/ Idle /\ \E q \in {qEmpty, <<"A">>} : Search(q)
  \/ Idle /\ \E q \in {qEmpty, <<"A">>} : SearchDocs(q)
  \/ Idle /\ \E p \in PagePaths : ReadFile(p, 0, NoLimit)
  \/ Idle /\ \E p \in PagePaths : ReadDoc(p, 0, NoLimit)
  \/ ListFiles
  \/ RemoveRoot
  \/ Respond

SpecServe == InitServe /\ [][NextServe]_vars

(***************************************************************************)
(* Properties.                                                             *)
(***************************************************************************)
RootPresent == Exists(fs, DOCS_DIR)

\* the canonical target of the path the pending operation was given
Target == Resolve(fs, JoinPath(DOCS_DIR, op.path))

Traversal == Return(Message("Access denied: path traversal attempt"))

\* C1: validate_path returns a path only if it is the root or lies beneath
\* it, and raises PathTraversalError for every path whose canonical
\* resolution falls outside the root; the check in read_doc does the same:
\* it answers "Access denied" and opens nothing.
C1_PathSafety ==
  /\ op.name = "validate_path" =>
       /\ outcome.kind = "return" => outcome.value = Target /\ Within(DOCS_DIR, outcome.value)
       /\ ~Within(DOCS_DIR, Target) => outcome = Raise("PathTraversalError")
  /\ (op.name = "read_doc" /\ RootPresent) =>
       /\ \A p \in opened : Within(DOCS_DIR, p)
       /\ ~Within(DOCS_DIR, Target) => outcome = Traversal /\ opened = {}

\* a path through a symlink inside the root that leads outside was rejected
C1_Witness ==
  /\ op.name = "validate_path"
  /\ op.path = [abs |-> FALSE, parts |-> <<nLn, nS>>]
  /\ Node(fs, <<nDocs, nLn>>).kind = "link"
  /\ Exists(fs, Target)
  /\ outcome = Raise("PathTraversalError")

\* C2: handle_read_resource returns file content only if read_doc's check
\* (the common path of the root and the resolved target equals the root)
\* accepts the same path.
C2_ResourceSameRule ==
  (op.name = "read_resource" /\ outcome.kind = "return")
    => InsideRootTest(DOCS_DIR, Target)

\* C3: for a file of length L, 0 <= offset <= L and every integer limit,
\* read_file returns the max(0, min(limit, L - offset)) characters at
\* positions offset .. offset + count - 1.
C3_Pagination ==
  (/\ op.name = "read_file"
   /\ outcome.kind = "return"
   /\ op.limit # NoLimit
   /\ op.offset >= 0
   /\ op.offset <= outcome.value.total)
    => LET content == Node(fs, Target).content
           count == Max(0, Min(op.limit[1], Len(content) - op.offset))
       IN  /\ Len(outcome.value.slice) = count
           /\ outcome.value.slice = SubSeq(content, op.offset + 1, op.offset + count)

\* the results of the pending search before sorting and truncation
Collected == Collect(fs, SupportedFiles(fs), op.query)

\* C4: search returns at most max_results (7) results, however many files
\* qualify.
C4_AtMostMaxResults ==
  (op.name = "search" /\ outcome.kind = "return")
    => Len(outcome.value) <= MAX_SEARCH_RESULTS

\* more files qualified than are returned
C4_Witness ==
  /\ op.name = "search"
  /\ outcome.kind = "return"
  /\ Len(Collected) > MAX_SEARCH_RESULTS
  /\ Len(outcome.value) = MAX_SEARCH_RESULTS

\* C5: in every list returned by search the ranks are non-decreasing.
C5_RanksAscending ==
  (op.name = "search" /\ outcome.kind = "return")
    => \A i, j \in 1..Len(outcome.value) :
         i < j => outcome.value[i].rank <= outcome.value[j].rank

\* a returned list holding the three ranks, whose files were not visited
\* in rank order
C5_Witness ==
  /\ op.name = "search"
  /\ outcome.kind = "return"
  /\ {outcome.value[i].rank : i \in 1..Len(outcome.value)} = {1, 2, 3}
  /\ \E i, j \in 1..Len(Collected) : i < j /\ Collected[i].rank > Collected[j].rank

\* the query occurs in the path, letter case apart
PathHoldsQuery(path, query) ==
  \E i \in 0..Len(path) :
    /\ i + Len(query) <= Len(path)
    /\ \A k \in 1..Len(query) : LowerChar(path[i + k]) = LowerChar(query[k])

\* C6: a returned result has rank 1 if and only if the query is a
\* case-insensitive substring of its root-relative path, directory
\* components included, whatever the file's content.
C6_RankOneIffPath ==
  (op.name = "search" /\ outcome.kind = "return")
    => \A i \in 1..Len(outcome.value) :
         (outcome.value[i].rank = 1) <=> PathHoldsQuery(outcome.value[i].path, op.query)

\* a rank-1 result matched only through a directory name and another
\* letter case, its content holding no match
C6_Witness ==
  /\ op.name = "search"
  /\ outcome.kind = "return"
  /\ op.query = <<"A">>
  /\ \E i \in 1..Len(outcome.value) :
       /\ outcome.value[i].rank = 1
       /\ outcome.value[i].path = <<"a", "/", "b", ".", "m", "d">>
       /\ Node(fs, <<nDocs, nAd, <<"b", ".", "m", "d">> >>).content = cOther

\* the query is empty or holds white space only
IsBlank(query) == \A i \in 1..Len(query) : IsSpace(query[i])

\* C7: with the root present, search with an empty or blank query fails
\* with SearchQueryEmptyError and neither enumerates nor opens a file.
C7_BlankQueryRejected ==
  (op.name = "search" /\ RootPresent /\ IsBlank(op.query))
    => outcome = Raise("SearchQueryEmptyError") /\ ~walked /\ opened = {}

\* C8: when the root does not exist, search, read_file and list_files fail
\* with DocumentationNotAvailableError whatever their arguments.
C8_RootAbsent ==
  (op.name \in {"search", "read_file", "list_files"} /\ ~RootPresent)
    => outcome = Raise("DocumentationNotAvailableError") /\ opened = {} /\ ~walked

\* a read of a relative path has failed so on a missing root
C8_Witness ==
  /\ ~RootPresent
  /\ op.name = "read_file"
  /\ op.path = [abs |-> FALSE, parts |-> <<nA>>]
  /\ outcome = Raise("DocumentationNotAvailableError")

\* C9: with the root present, a read validates the path before it tests
\* existence or opens anything: a target outside the root gives the
\* traversal outcome, existing or not, with no file opened; a target
\* inside the root at which nothing exists gives ResourceNotFoundError
\* (read_file) or the "File not found" text (read_doc).
C9_ValidationFirst ==
  (op.name \in {"read_file", "read_doc"} /\ RootPresent) =>
    /\ ~Within(DOCS_DIR, Target) =>
         /\ opened = {}
         /\ outcome = IF op.name = "read_file" THEN Raise("PathTraversalError") ELSE Traversal
    /\ (Within(DOCS_DIR, Target) /\ ~Exists(fs, Target)) =>
         /\ opened = {}
         /\ outcome = IF op.name = "read_file" THEN Raise("ResourceNotFoundError")
                      ELSE Return(Message("File not found"))

\* a read of a path leading, through "..", to a file that exists outside
\* the root was denied without opening it
C9_Witness ==
  /\ op.name = "read_file"
  /\ op.path = [abs |-> FALSE, parts |-> <<DotDot, nEtc, nS>>]
  /\ Exists(fs, Target)
  /\ outcome = Raise("PathTraversalError")
  /\ opened = {}

\* the limit read_doc works with: the caller's, or the default
DocLimit == IF op.limit = NoLimit THEN MAX_FILE_CHARS ELSE op.limit[1]

\* the pending operation is a read_doc that read a file
DocRead ==
  /\ op.name = "read_doc"
  /\ RootPresent
  /\ Within(DOCS_DIR, Target)
  /\ Node(fs, Target).kind = "file"

\* C10: for a file of length L, read_doc appends the footer whenever
\* offset > 0 or (offset = 0 and limit < L), and never when offset = 0 and
\* limit >= L.
C10_FooterPresence ==
  DocRead =>
    LET L == Len(Node(fs, Target).content)
    IN  /\ (op.offset > 0 \/ (op.offset = 0 /\ DocLimit < L))
             => outcome.value.footer # NoFooter
        /\ (op.offset = 0 /\ DocLimit >= L) => outcome.value.footer = NoFooter

\* a read from offset 0 with a limit below the length carries the footer,
\* and the file is not empty
C10_Witness ==
  /\ DocRead
  /\ op.offset = 0
  /\ op.limit = Some(2)
  /\ Len(Node(fs, Target).content) = 3
  /\ outcome.value.footer = <<0, 2, 3>>

\* C11: whenever read_doc appends the footer it reads S-E of T with
\* S = offset, E = min(offset + limit, T) and T the length of the file, and
\* the text before it is exactly the E - S characters of the file at
\* positions S .. E - 1.
C11_FooterContent ==
  (DocRead /\ outcome.value.footer # NoFooter) =>
    LET content == Node(fs, Target).content
        T == Len(content)
        S == op.offset
        E == Min(op.offset + DocLimit, T)
    IN  /\ outcome.value.footer = <<S, E, T>>
        /\ IF E - S <= 0 THEN outcome.value.body = <<>>
           ELSE /\ S >= 0
                /\ outcome.value.body = SubSeq(content, S + 1, E)

\* the operations exposed to the caller
Exposed == {"search_docs", "read_doc", "list_docs_map", "sync_docs", "read_resource"}

\* C12: every exposed operation returns text, whatever its input and the
\* state of the file system: no error leaves the handler as an exception.
C12_ErrorsRecovered == op.name \in Exposed => outcome.kind = "return"

\* the URI without its scheme prefix
Unschemed(uri) == [abs |-> FALSE, parts |-> SubSeq(uri.parts, 3, Len(uri.parts))]

\* C19: for a supported file with root-relative path p, reading the URI made
\* of a scheme prefix and p returns what reading the URI p returns.
C19_SchemeStripped ==
  (/\ op.name = "read_resource"
   /\ op.path \in SchemeUris
   /\ RootPresent
   /\ Node(fs, DOCS_DIR \o Unschemed(op.path).parts).kind = "file")
    => outcome = handle_read_resource(fs, Unschemed(op.path)).out

TreeRendered ==
  /\ op.name \in {"list_docs_map", "build_tree"}
  /\ RootPresent
  /\ outcome.kind = "return"

\* the depth of a rendered line: the root line lies above the entries
LineDepth(line) == IF line.connector = "" THEN -1 ELSE Len(line.prefix)

\* the line under which the i-th line hangs: the nearest line before it
\* that is one level up, or 0 when there is none
LineParent(lines, i) ==
  LET up == {j \in 1..(i - 1) : LineDepth(lines[j]) = LineDepth(lines[i]) - 1}
  IN  IF up = {} THEN 0 ELSE CHOOSE j \in up : \A k \in up : k <= j

\* C14: in the rendered tree, among the entries of one directory every
\* subdirectory line precedes every file line, and within each of the two
\* groups the names are in case-insensitive alphabetical order.
C14_TreeOrder ==
  TreeRendered =>
    LET lines == outcome.value
    IN  \A i, j \in 1..Len(lines) :
          (i < j /\ LineParent(lines, i) = LineParent(lines, j)
                 /\ LineDepth(lines[i]) = LineDepth(lines[j]))
            => /\ ~(~lines[i].dir /\ lines[j].dir)
               /\ lines[i].dir = lines[j].dir
                    => ~StrLess(Lower(lines[j].name), Lower(lines[i].name))

\* a rendered directory whose listing gave the upper-case names first: the
\* directory a precedes the directory K, and a.md precedes B.md
C14_Witness ==
  /\ TreeRendered
  /\ op.name = "list_docs_map"
  /\ \E i, j, k, l \in 1..Len(outcome.value) :
       /\ i < j /\ j < k /\ k < l
       /\ LineDepth(outcome.value[i]) = 0 /\ outcome.value[i].name = nAd
       /\ LineDepth(outcome.value[j]) = 0 /\ outcome.value[j].name = nKbig
       /\ LineDepth(outcome.value[k]) = 0 /\ outcome.value[k].name = nA
       /\ LineDepth(outcome.value[l]) = 0 /\ outcome.value[l].name = nBig

RECURSIVE LinePath(_, _)
\* the root-relative path a rendered line stands for
LinePath(lines, i) ==
  IF i = 0 \/ LineDepth(lines[i]) = -1 THEN <<>>
  ELSE Append(LinePath(lines, LineParent(lines, i)), lines[i].name)

\* the root-relative paths, of up to three names, of the entries reached
\* from the root through listable directories with no dot name on the way
ReachableEntries ==
  LET names == {p[Len(p)] : p \in DOMAIN fs}
      cands == SeqsUpTo(names, 3) \ {<<>>}
      at(p) == Node(fs, Resolve(fs, DOCS_DIR \o p))
  IN  {p \in cands :
         /\ at(p).kind # "none"
         /\ \A k \in 1..Len(p) : p[k][1] # "."
         /\ \A k \in 1..(Len(p) - 1) :
              at(SubSeq(p, 1, k)).kind = "dir" /\ at(SubSeq(p, 1, k)).readable}

\* C15: the rendered tree has exactly one line for every entry reachable
\* from the root through listable directories without a dot-prefixed name
\* on the way, and no other line besides the root line of list_docs_map.
C15_TreeContent ==
  TreeRendered =>
    LET lines == outcome.value
        entries == {i \in 1..Len(lines) : LineDepth(lines[i]) >= 0}
    IN  /\ {LinePath(lines, i) : i \in entries} = ReachableEntries
        /\ \A i, j \in entries : LinePath(lines, i) = LinePath(lines, j) => i = j
        /\ op.name = "list_docs_map" =>
             /\ LineDepth(lines[1]) = -1
             /\ lines[1].name = DOCS_DIR[Len(DOCS_DIR)]
             /\ Cardinality(entries) = Len(lines) - 1

\* a rendered tree over a root holding a dot-named file, a dot-named
\* directory with a file, and a directory that cannot be listed: several
\* entries are rendered, none of those
C15_Witness ==
  /\ TreeRendered
  /\ Node(fs, <<nDocs, nDotH>>).kind = "file"
  /\ Node(fs, <<nDocs, nDotG, nA>>).kind = "file"
  /\ Node(fs, <<nDocs, nKbig, nA>>).kind = "file"
  /\ ~Node(fs, <<nDocs, nKbig>>).readable
  /\ Len(outcome.value) > 3
  /\ \A i \in 1..Len(outcome.value) : outcome.value[i].name \notin {nDotH, nDotG}

\* C16: sync_all returns one SyncResult for every configured repository,
\* in the order of the configuration, whatever git did for the others: each
\* result is the one that syncing that repository by itself gives.
C16_OneResultEach ==
  op.name = "sync_all" =>
    /\ outcome.kind = "return"
    /\ Len(outcome.value) = Len(REPOSITORIES)
    /\ \A i \in 1..Len(REPOSITORIES) :
         /\ outcome.value[i].repo_name = REPOSITORIES[i]
         /\ \A left \in BOOLEAN :
              outcome.value[i]
                = sync_repository(EnsureRoot(op.before), REPOSITORIES[i], op.env[i], left).out.value

\* the first repository's clone was cut by its timeout and the second
\* repository was cloned all the same
C16_Witness ==
  /\ op.name = "sync_all"
  /\ ~Exists(op.before, DOCS_DIR)
  /\ op.env[1][1] = "timeout"
  /\ outcome.kind = "return"
  /\ ~outcome.value[1].success
  /\ outcome.value[2].success /\ outcome.value[2].was_cloned

\* C17: a repository's SyncResult has success = true only if every git step
\* of its sync (the clone, the two sparse-checkout configuration steps and
\* the checkout, or the pull) exited zero within its timeout.
C17_SuccessMeansAllSteps ==
  (op.name = "sync_all" /\ outcome.kind = "return") =>
    \A i \in 1..Len(outcome.value) :
      outcome.value[i].success =>
        IF outcome.value[i].was_cloned
        THEN \A k \in 1..4 : op.env[i][k] = "ok"
        ELSE op.env[i][1] = "ok"

\* some repository whose directory exists had both lookups exit zero with
\* different revisions, no step of its check being cut or unable to start
SomeRepoDiffers ==
  \E i \in 1..Len(REPOSITORIES) :
    /\ Exists(fs, RepoDir(REPOSITORIES[i]))
    /\ ~\E o \in {op.cenv[i].fetch, op.cenv[i].local, op.cenv[i].remote} :
          o \in {"timeout", "missing"}
    /\ op.cenv[i].local \notin {"fail"} /\ op.cenv[i].remote \notin {"fail"}
    /\ op.cenv[i].local # op.cenv[i].remote

\* C18: check_if_outdated (GitManager's and the server's) returns true
\* exactly when some configured repository whose directory exists has both
\* revision lookups succeed with different revisions; a timeout or a
\* missing git tool makes that repository count as not outdated and the
\* others are still checked; without the root the answer is false.
C18_OutdatedIffDiffers ==
  op.name \in {"check_if_outdated", "server_check_if_outdated"} =>
    /\ outcome.kind = "return"
    /\ outcome.value = (RootPresent /\ SomeRepoDiffers)

\* the check of the first repository was cut by a timeout and the second
\* repository was found outdated
C18_Witness ==
  /\ op.name = "check_if_outdated"
  /\ Exists(fs, RepoDir(REPOSITORIES[1])) /\ Exists(fs, RepoDir(REPOSITORIES[2]))
  /\ op.cenv[1].fetch = "timeout"
  /\ op.cenv[2].local = "h1" /\ op.cenv[2].remote = "h2"
  /\ outcome = Return(TRUE)

\* C20: a search that has begun its walk, with a sync adding, replacing and
\* removing files between any two of its steps, ends by returning a list:
\* a file that was gone or unreadable when its turn came is skipped and
\* appears in no result, and no such file makes the search fail.
C20_SearchSurvivesSync ==
  (op.name = "search" /\ op.scanned /\ outcome # NoOutcome) =>
    /\ outcome.kind = "return"
    /\ \A i \in 1..Len(outcome.value) : outcome.value[i].path \notin op.skipped

\* a search returned results for the files it could open after skipping a
\* file that had been listed and was gone when opened
C20_Witness ==
  /\ op.name = "search"
  /\ op.scanned
  /\ outcome.kind = "return"
  /\ \E p \in op.skipped : Node(fs, DOCS_DIR \o <<nKlipper, nA>>).kind = "none"
                           /\ p = RelPath(DOCS_DIR \o <<nKlipper, nA>>)
  /\ Len(outcome.value) > 0

\* the exceptions read_file is documented to raise
DocumentedReadErrors ==
  {"DocumentationNotAvailableError", "PathTraversalError", "InvalidPathError",
   "ResourceNotFoundError"}

\* C28: for every path and file system, read_file returns (slice, total) or
\* fails with one of the four documented exceptions; a path that validates
\* and names a directory, such as "" or ".", ends in no other exception.
C28_ReadFileOutcomes ==
  (op.name = "read_file" /\ outcome # NoOutcome) =>
    \/ outcome.kind = "return"
    \/ outcome.kind = "raise" /\ outcome.exc \in DocumentedReadErrors

\* the content of the file the loop body read
Read == Node(fs, op.file_path).content

\* a line begins at position p
LineStart(content, p) == p = 0 \/ At(content, p - 1) = "\n"

\* the line beginning at p is a heading line holding the query: 1 to 6 "#",
\* then white space, and the query somewhere in the line, letter case apart
HeadingLineAt(content, query, p) ==
  LET e == LineEnd(content, p)
  IN  /\ LineStart(content, p)
      /\ \E h \in 1..6 :
           /\ p + h < e
           /\ \A k \in 0..(h - 1) : At(content, p + k) = "#"
           /\ IsSpace(At(content, p + h))
      /\ \E j \in p..(e - Len(query)) : CiOccursAt(content, query, j)

HasHeadingLine(content, query) ==
  \E p \in 0..(Len(content) - 1) : HeadingLineAt(content, query, p)

\* C21: a result whose path does not hold the query has rank 2 if and only
\* if some heading line of the file (1 to 6 "#", white space, the query in
\* the line) holds the query, and rank 3 otherwise.
C21_RankTwoIffHeadingLine ==
  (op.name = "loop_body" /\ outcome.value # <<>>
     /\ ~PathHoldsQuery(outcome.value[1].path, op.query))
    => outcome.value[1].rank = IF HasHeadingLine(Read, op.query) THEN 2 ELSE 3

\* the supported files of the tree that can be read
ReadableFiles ==
  {f \in DOMAIN fs : /\ Within(DOCS_DIR, f)
                     /\ fs[f].kind = "file"
                     /\ fs[f].readable
                     /\ is_supported_file(f[Len(f)])}

\* the query occurs in the path of the file or in its content
Qualifies(f, query) ==
  \/ PathHoldsQuery(RelPath(f), query)
  \/ \E i \in 0..Len(fs[f].content) : CiOccursAt(fs[f].content, query, i)

\* C23: with no truncation, search returns one result for each supported
\* file whose path or content holds the query and none for any other file:
\* no two results share a path and no returned file is without a match.
C23_OneResultPerQualifyingFile ==
  (op.name = "search" /\ outcome.kind = "return"
     /\ Cardinality(ReadableFiles) <= MAX_SEARCH_RESULTS)
    => LET qualifying == {f \in ReadableFiles : Qualifies(f, op.query)}
       IN  /\ {outcome.value[i].path : i \in 1..Len(outcome.value)}
                = {RelPath(f) : f \in qualifying}
           /\ Len(outcome.value) = Cardinality(qualifying)

\* of two files of the same content one is returned, for its name, and the
\* other is not
C23_Witness ==
  /\ op.name = "search"
  /\ outcome.kind = "return"
  /\ Cardinality(ReadableFiles) = 2
  /\ Len(outcome.value) = 1

\* the matches the loop body recorded, headings first
Recorded == op.heading_matches \o op.content_matches

\* the snippet of a file without any match: its beginning
FileStart(content) ==
  IF Len(content) > SNIPPET_LENGTH
  THEN SubSeq(content, 1, SNIPPET_LENGTH) \o <<".", ".", ".">>
  ELSE content

\* C24: when the file has a match, the snippet of its result is that of the
\* match of least position among heading and body matches, the one
\* recorded first among equals; without any match it is the file start.
C24_SnippetOfFirstMatch ==
  (op.name = "loop_body" /\ outcome.value # <<>>)
    => IF Recorded = <<>>
       THEN outcome.value[1].snippet = FileStart(Read)
       ELSE \E i \in 1..Len(Recorded) :
              /\ \A j \in 1..Len(Recorded) :
                   \/ Recorded[i].pos < Recorded[j].pos
                   \/ Recorded[i].pos = Recorded[j].pos /\ i <= j
              /\ outcome.value[1].snippet = Recorded[i].snippet

\* the match of least position was not recorded first and its snippet is
\* not that of the match recorded first
C24_Witness ==
  /\ op.name = "loop_body"
  /\ outcome.value # <<>>
  /\ Len(Recorded) > 1
  /\ \E i \in 2..Len(Recorded) :
       /\ Recorded[i].pos < Recorded[1].pos
       /\ Recorded[i].snippet # Recorded[1].snippet

\* the occurrence at position i lies inside a recorded heading range
InsideHeading(i) ==
  \E k \in 1..Len(op.heading_ranges) :
    /\ i >= op.heading_ranges[k].start
    /\ i + Len(op.query) <= op.heading_ranges[k].end

\* the positions where the query occurs in the content read
Occurrences == {i \in 0..Len(Read) : CiOccursAt(Read, op.query, i)}

BodyPositions == {op.content_matches[i].pos : i \in 1..Len(op.content_matches)}

C26_SameListWithoutExclusion ==
  (op.name = "search_docs" /\ op.query # <<>> /\ Exists(fs, DOCS_DIR))
    => op.results = search(fs, op.query).out.value

\* search_docs returned results for a file where an occurrence lies inside
\* a heading after an occurrence outside
C26_Witness ==
  /\ op.name = "search_docs"
  /\ op.results # <<>>
  /\ \E f \in ReadableFiles :
       LET content == fs[f].content
           ranges == HeadingSpans(content, op.query, 0)
           spans == QuerySpans(content, op.query, 0)
       IN  /\ \E i \in 1..Len(spans) : IsHeading(spans[i], ranges)
           /\ \E i \in 1..Len(spans) : ~IsHeading(spans[i], ranges)
           /\ Len(content) > SNIPPET_LENGTH \div 2

\* where the walk visits the file of that path
VisitIndex(path) ==
  LET files == SupportedFiles(fs)
  IN  CHOOSE k \in 1..Len(files) : RelPath(files[k]) = path

\* C22: two returned results of equal rank stand in the order in which the
\* walk visited their files.
C22_StableWithinRank ==
  (op.name = "search" /\ outcome.kind = "return")
    => \A i, j \in 1..Len(outcome.value) :
         (i < j /\ outcome.value[i].rank = outcome.value[j].rank)
           => VisitIndex(outcome.value[i].path) < VisitIndex(outcome.value[j].path)

\* the sort moved results and two of the results returned share a rank
C22_Witness ==
  /\ op.name = "search"
  /\ outcome.kind = "return"
  /\ \E i, j \in 1..Len(Collected) : i < j /\ Collected[i].rank > Collected[j].rank
  /\ \E i, j \in 1..Len(outcome.value) :
       i < j /\ outcome.value[i].rank = outcome.value[j].rank

ReturnedPaths == {outcome.value[i].path : i \in 1..Len(outcome.value)}

\* C27: a qualifying file is missing from the returned list only if the
\* list holds max_results entries, each ranked at least as well as the
\* missing file; when at most max_results files qualify, all are returned.
C27_TruncationKeepsBest ==
  (op.name = "search" /\ outcome.kind = "return")
    => /\ \A k \in 1..Len(Collected) :
            Collected[k].path \notin ReturnedPaths =>
              /\ Len(outcome.value) = MAX_SEARCH_RESULTS
              /\ \A i \in 1..Len(outcome.value) :
                   outcome.value[i].rank <= Collected[k].rank
       /\ Len(Collected) <= MAX_SEARCH_RESULTS =>
            \A k \in 1..Len(Collected) : Collected[k].path \in ReturnedPaths

\* a file visited early is missing, and a better-ranked file visited after
\* it is returned
C27_Witness ==
  /\ op.name = "search"
  /\ outcome.kind = "return"
  /\ \E k, m \in 1..Len(Collected) :
       /\ k < m
       /\ Collected[k].path \notin ReturnedPaths
       /\ Collected[m].path \in ReturnedPaths
       /\ Collected[m].rank < Collected[k].rank

\* the lines sync_docs returned
Lines == {outcome.value[i] : i \in 1..Len(outcome.value)}

\* C29: sync_docs says that all repositories are up to date only if every
\* repository was cloned or updated in that call: the line never stands in
\* an output that reports a failed clone, a failed update or a sync error.
C29_UpToDateMeansAllSynced ==
  (op.name = "sync_docs" /\ UpToDateLine \in Lines)
    => \A l \in Lines : l.text \notin FailureTexts

\* the pending result reports a missing root: the exception of the
\* services, or the text the handlers return in its place
RootReportedMissing ==
  \/ outcome.kind = "raise" /\ outcome.exc = "DocumentationNotAvailableError"
  \/ /\ op.name \in {"read_doc", "search_docs"}
     /\ outcome.value.msg = "Documentation directory not found. Run sync_docs() first."

\* C30: once a sync has returned and until the root is removed, the root
\* exists and no search, read or listing fails for want of it.
C30_RootAfterSync ==
  synced =>
    /\ Exists(fs, DOCS_DIR)
    /\ ~RootReportedMissing

\* the root was made by a sync none of whose clones succeeded, and a search
\* made after it returned a list
C30_Witness ==
  /\ synced
  /\ op.name = "search"
  /\ outcome.kind = "return"
  /\ \A i \in 1..Len(REPOSITORIES) : ~Exists(fs, RepoDir(REPOSITORIES[i]))

====
